---- MODULE Spec2Model ----
(***************************************************************************)
(* A model of git_rev (src/src/lib.rs): the resolver get_git_revision,     *)
(* the Hash type with its two projections (most_significant_u64 and        *)
(* Display), and the four procedural macros that embed the result.         *)
(*                                                                         *)
(* Text is modelled as sequences of bytes 0..255 (Rust's Vec<u8> / str).   *)
(* A u64 is modelled as its eight base-256 limbs, indexed by significance  *)
(* (limb 0 is the least significant byte), because its values exceed the   *)
(* integers TLC computes with; shifts and ors act on the limbs exactly as  *)
(* the machine operations act on the bits, bits shifted out being lost.    *)
(***************************************************************************)
EXTENDS Integers, Sequences, FiniteSets, TLC

VARIABLES repo, moved, result, fresh, expansion, calls, spawned

vars == <<repo, moved, result, fresh, expansion, calls, spawned>>

\* src/src/lib.rs:8
HASH_BYTES == 20

\* Number of sample commit hashes the repository HEAD ranges over.
NumHashes == 3

\* Number of macro expansions (calls of get_git_revision) in one behaviour.
MaxCalls == 2

Byte == 0..255

(***************************************************************************)
(* Bytes and characters                                                    *)
(***************************************************************************)

IsDecDigit(c) == c >= 48 /\ c <= 57
IsLowerHex(c) == c >= 97 /\ c <= 102
IsUpperHex(c) == c >= 65 /\ c <= 70

\* char::to_digit(16) as used by from_str_radix: the digit's value, or -1
\* when the character is no digit of radix 16.
to_digit(c) ==
  IF IsDecDigit(c) THEN c - 48
  ELSE IF IsLowerHex(c) THEN c - 97 + 10
  ELSE IF IsUpperHex(c) THEN c - 65 + 10
  ELSE -1

\* u8::from_str_radix(src, 16), as the standard library computes it: an
\* empty string fails; a lone sign fails; one leading '+' is skipped; '-' is
\* not skipped for an unsigned type and is then an invalid digit; every
\* remaining character must be a digit; the value must fit u8.
\* The result is the value, or -1 for Err.
RECURSIVE from_digits(_, _)
from_digits(digits, acc) ==
  IF digits = <<>> THEN acc
  ELSE IF to_digit(Head(digits)) < 0 THEN -1
  ELSE IF acc * 16 + to_digit(Head(digits)) > 255 THEN -1
  ELSE from_digits(Tail(digits), acc * 16 + to_digit(Head(digits)))

from_str_radix(src) ==
  IF src = <<>> THEN -1
  ELSE IF (Head(src) = 43 \/ Head(src) = 45) /\ Tail(src) = <<>> THEN -1
  ELSE IF Head(src) = 43 THEN from_digits(Tail(src), 0)
  ELSE from_digits(src, 0)

\* A UTF-8 continuation byte (10xxxxxx).
IsCont(b) == b >= 128 /\ b <= 191

\* str::is_char_boundary: the start, the end, or a byte that does not
\* continue a character.
is_char_boundary(s, idx) ==
  \/ idx = 0
  \/ idx = Len(s)
  \/ (idx < Len(s) /\ ~IsCont(s[idx + 1]))

\* Length in bytes of the well-formed UTF-8 character that starts at byte i
\* of s (1-based), or 0 when there is none (core::str::from_utf8's
\* validation).
Utf8Width(s, i) ==
  LET b == s[i]
      n == Len(s) - i + 1
      In(x, lo, hi) == x >= lo /\ x <= hi
  IN IF b < 128 THEN 1
     ELSE IF In(b, 194, 223)
       THEN IF n >= 2 /\ IsCont(s[i + 1]) THEN 2 ELSE 0
     ELSE IF In(b, 224, 239)
       THEN IF /\ n >= 3
               /\ IsCont(s[i + 2])
               /\ IF b = 224 THEN In(s[i + 1], 160, 191)
                  ELSE IF b = 237 THEN In(s[i + 1], 128, 159)
                  ELSE IsCont(s[i + 1])
            THEN 3 ELSE 0
     ELSE IF In(b, 240, 244)
       THEN IF /\ n >= 4
               /\ IsCont(s[i + 2])
               /\ IsCont(s[i + 3])
               /\ IF b = 240 THEN In(s[i + 1], 144, 191)
                  ELSE IF b = 244 THEN In(s[i + 1], 128, 143)
                  ELSE IsCont(s[i + 1])
            THEN 4 ELSE 0
     ELSE 0

RECURSIVE Utf8From(_, _)
Utf8From(s, i) ==
  IF i > Len(s) THEN TRUE
  ELSE IF Utf8Width(s, i) = 0 THEN FALSE
  ELSE Utf8From(s, i + Utf8Width(s, i))

\* String::from_utf8(bytes).is_ok()
from_utf8_ok(s) == Utf8From(s, 1)

\* A plausible slip: the output is not truncated.
truncate_keep_all(s, n) == s

\* Vec::truncate(n): keeps the first n elements, no effect when shorter.

truncate(s, n) == IF Len(s) > n THEN SubSeq(s, 1, n) ELSE s

(***************************************************************************)
(* Hash and its projections                                                *)
(***************************************************************************)

\* The lowercase digit character written by {:x} for a value 0..15.
LowerHexChar(d) == IF d < 10 THEN 48 + d ELSE 97 + d - 10

\* The uppercase digit character, as {:X} writes it.
UpperHexChar(d) == IF d < 10 THEN 48 + d ELSE 65 + d - 10

\* A plausible slip: {:02X}, the uppercase digits.
fmt_02X(b) == <<UpperHexChar(b \div 16), UpperHexChar(b % 16)>>

\* write!(f, "{:02x}", byte): two lowercase digits, zero padded.
fmt_02x(b) == <<LowerHexChar(b \div 16), LowerHexChar(b % 16)>>

\* impl Display for Hash: the bytes in order, each through {:02x}.
RECURSIVE DisplayFrom(_, _)
DisplayFrom(h, i) ==
  IF i > Len(h) THEN <<>> ELSE fmt_02x(h[i]) \o DisplayFrom(h, i + 1)

Display(h) == DisplayFrom(h, 1)

\* The u64 values: limb k carries weight 256^k.
Limbs == 0..7

u64_from(b) == [k \in Limbs |-> IF k = 0 THEN b ELSE 0]

Limb(v, k) == IF k \in Limbs THEN v[k] ELSE 0

\* v << n on u64 (0 <= n < 64): bits moved past bit 63 are lost.
Shl(v, n) ==
  LET q == n \div 8
      p == 2 ^ (n % 8)
  IN [k \in Limbs |->
        ((Limb(v, k - q) * p) % 256) + ((Limb(v, k - q - 1) * p) \div 256)]

RECURSIVE ByteOr(_, _)
ByteOr(a, b) ==
  IF a = 0 THEN b
  ELSE IF b = 0 THEN a
  ELSE (IF a % 2 = 1 \/ b % 2 = 1 THEN 1 ELSE 0)
       + 2 * ByteOr(a \div 2, b \div 2)

\* v | w on u64
BitOr(v, w) == [k \in Limbs |-> ByteOr(v[k], w[k])]

\* A plausible slip: the bytes taken least significant first.
most_significant_u64_le(h) ==
  BitOr(BitOr(BitOr(BitOr(BitOr(BitOr(BitOr(
    Shl(u64_from(h[8]), 56),
    Shl(u64_from(h[7]), 48)),
    Shl(u64_from(h[6]), 40)),
    Shl(u64_from(h[5]), 32)),
    Shl(u64_from(h[4]), 24)),
    Shl(u64_from(h[3]), 16)),
    Shl(u64_from(h[2]), 8)),
    u64_from(h[1]))

\* Hash::most_significant_u64 (self.0[i] is h[i + 1])
most_significant_u64(h) ==
  BitOr(BitOr(BitOr(BitOr(BitOr(BitOr(BitOr(
    Shl(u64_from(h[1]), 56),
    Shl(u64_from(h[2]), 48)),
    Shl(u64_from(h[3]), 40)),
    Shl(u64_from(h[4]), 32)),
    Shl(u64_from(h[5]), 24)),
    Shl(u64_from(h[6]), 16)),
    Shl(u64_from(h[7]), 8)),
    u64_from(h[8]))

\* format!("{}", v) for a u64: its decimal digits, no sign, no padding.
IsZero(v) == \A k \in Limbs : v[k] = 0

RECURSIVE DivStep(_, _, _, _)
DivStep(v, k, rem, q) ==
  IF k < 0 THEN [q |-> q, r |-> rem]
  ELSE LET cur == rem * 256 + v[k]
       IN DivStep(v, k - 1, cur % 10, [q EXCEPT ![k] = cur \div 10])

RECURSIVE DecDigits(_)
DecDigits(v) ==
  IF IsZero(v) THEN <<>>
  ELSE LET d == DivStep(v, 7, 0, v)
       IN Append(DecDigits(d.q), 48 + d.r)

fmt_u64(v) == IF IsZero(v) THEN <<48>> ELSE DecDigits(v)

(***************************************************************************)
(* get_git_revision                                                        *)
(***************************************************************************)

Ok(h) == [kind |-> "Ok", err |-> "", hash |-> h]
Err(e) == [kind |-> "Err", err |-> e, hash |-> <<>>]
Panic == [kind |-> "Panic", err |-> "", hash |-> <<>>]
NoResult == [kind |-> "NotCalled", err |-> "", hash |-> <<>>]

\* &stdout[a..b] on a str: panics unless both ends are char boundaries.
SliceOk(s, a, b) ==
  a <= b /\ b <= Len(s) /\ is_char_boundary(s, a) /\ is_char_boundary(s, b)

\* The loop of lines 143..146, from iteration i with the bytes parsed so far.
RECURSIVE ParseLoop(_, _, _)
ParseLoop(stdout, i, hash_bytes) ==
  IF i >= HASH_BYTES THEN Ok(hash_bytes)
  ELSE IF ~SliceOk(stdout, i * 2, i * 2 + 2) THEN Panic
  ELSE LET two_digits == SubSeq(stdout, i * 2 + 1, i * 2 + 2)
           b == from_str_radix(two_digits)
       IN IF b < 0 THEN Err("Parse")
          ELSE ParseLoop(stdout, i + 1, Append(hash_bytes, b))

\* A plausible slip: the exit status is looked at after the output.
get_git_revision_status_late(out) ==
  IF ~out.launch THEN Err("Command")
  ELSE IF Len(out.stdout) < HASH_BYTES * 2 THEN Err("Parse")
  ELSE LET stdout == truncate(out.stdout, HASH_BYTES * 2)
       IN IF ~from_utf8_ok(stdout) THEN Err("Parse")
          ELSE IF ParseLoop(stdout, 0, <<>>).kind # "Ok"
            THEN ParseLoop(stdout, 0, <<>>)
          ELSE IF ~out.success THEN Err("StatusCode")
          ELSE ParseLoop(stdout, 0, <<>>)

\* get_git_revision on the outcome out of Command::output().
get_git_revision(out) ==
  IF ~out.launch THEN Err("Command")
  ELSE IF out.success
    THEN IF Len(out.stdout) < HASH_BYTES * 2 THEN Err("Parse")
         ELSE LET stdout == truncate(out.stdout, HASH_BYTES * 2)
              IN IF ~from_utf8_ok(stdout) THEN Err("Parse")
                 ELSE ParseLoop(stdout, 0, <<>>)
    ELSE Err("StatusCode")

(***************************************************************************)
(* The macros' expansions                                                  *)
(***************************************************************************)

NoExpansion == [macro |-> "", tag |-> "", lit |-> <<>>]
Aborted(m) == [macro |-> m, tag |-> "panic", lit |-> <<>>]

\* try_revision_u64 on the resolver's result r
try_revision_u64_expand(r) ==
  IF r.kind = "Panic" THEN Aborted("try_revision_u64")
  ELSE IF r.kind = "Ok"
    THEN [macro |-> "try_revision_u64", tag |-> "Some::<u64>(_)",
          lit |-> fmt_u64(most_significant_u64(r.hash))]
    ELSE [macro |-> "try_revision_u64", tag |-> "None::<u64>", lit |-> <<>>]

\* A plausible slip: unwrap_or_default in place of expect.
revision_u64_expand_default(r) ==
  IF r.kind = "Panic" THEN Aborted("revision_u64")
  ELSE IF r.kind = "Ok"
    THEN [macro |-> "revision_u64", tag |-> "_u64",
          lit |-> fmt_u64(most_significant_u64(r.hash))]
    ELSE [macro |-> "revision_u64", tag |-> "_u64", lit |-> <<48>>]

\* revision_u64: expect() panics on every Err
revision_u64_expand(r) ==
  IF r.kind # "Ok" THEN Aborted("revision_u64")
  ELSE [macro |-> "revision_u64", tag |-> "_u64",
        lit |-> fmt_u64(most_significant_u64(r.hash))]

\* try_revision_string
try_revision_string_expand(r) ==
  IF r.kind = "Panic" THEN Aborted("try_revision_string")
  ELSE IF r.kind = "Ok"
    THEN [macro |-> "try_revision_string", tag |-> "Some::<&'static str>(\"_\")",
          lit |-> Display(r.hash)]
    ELSE [macro |-> "try_revision_string", tag |-> "None::<&'static str>",
          lit |-> <<>>]

\* revision_string
revision_string_expand(r) ==
  IF r.kind # "Ok" THEN Aborted("revision_string")
  ELSE [macro |-> "revision_string", tag |-> "\"_\"", lit |-> Display(r.hash)]

(***************************************************************************)
(* The environment: what `git rev-parse HEAD` does when it is run          *)
(***************************************************************************)

\* The sample commit hashes: 01 02 .. 08 followed by mixed bytes, all ff,
\* all 00, and beyond those an arithmetic pattern.
SampleHash(n) ==
  [i \in 1..HASH_BYTES |->
     IF n = 1 THEN (IF i <= 8 THEN i ELSE (i * 29 + 100) % 256)
     ELSE IF n = 2 THEN 255
     ELSE IF n = 3 THEN 0
     ELSE (i + (n - 1) * (254 + 237 * i)) % 256]

SampleHashes == {SampleHash(n) : n \in 1..NumHashes}

\* git prints the commit id as 40 lowercase hex digits and a newline.
GitOutput(h) == Display(h) \o <<10>>

ToUpper(s) == [i \in 1..Len(s) |-> IF IsLowerHex(s[i]) THEN s[i] - 32 ELSE s[i]]

\* s with the bytes of seq written over it from position pos (1-based).
Overwrite(s, pos, seq) ==
  [i \in 1..Len(s) |->
     IF i >= pos /\ i < pos + Len(seq) THEN seq[i - pos + 1] ELSE s[i]]

\* What follows the first 40 bytes: nothing, a newline, CR LF, a second
\* line, a byte that is not UTF-8, a two-byte character.
Suffixes == {<<>>, <<10>>, <<13, 10>>, <<10, 122, 10>>, <<255>>, <<195, 169>>}

\* Byte sequences written over the digits at every position: a hex digit
\* of each kind, a letter past 'f', a plus sign, characters of two and three
\* bytes, and a byte that is not UTF-8.
ProbeSeqs ==
  { <<48>>, <<70>>, <<103>>, <<43>>,
    <<195, 169>>, <<226, 130, 172>>, <<255>> }

\* Bytes written over the first and the last pair of digits only: the
\* other ASCII neighbours of the three digit ranges, a minus sign, a
\* newline, a lone continuation byte, and two more hex digits.
EdgeProbes == {47, 58, 64, 71, 96, 45, 10, 128, 65, 102}

EdgePositions == {1, 2, HASH_BYTES * 2 - 1, HASH_BYTES * 2}

\* The first n bytes of the first sample's digits, alone or with a newline.
CutStdouts ==
  {SubSeq(Display(SampleHash(1)), 1, n) \o suf :
     n \in 0..(HASH_BYTES * 2 - 1), suf \in {<<>>, <<10>>}}

Stdouts ==
  {Display(h) \o suf : h \in SampleHashes, suf \in Suffixes}
  \cup {ToUpper(Display(h)) \o suf : h \in SampleHashes, suf \in Suffixes}
  \cup CutStdouts
  \cup UNION {{Overwrite(Display(SampleHash(1)), pos, seq) \o <<10>> :
                 pos \in 1..(HASH_BYTES * 2 - Len(seq) + 1)} :
              seq \in ProbeSeqs}
  \cup {Overwrite(Display(SampleHash(1)), pos, <<c>>) \o <<10>> :
          pos \in EdgePositions, c \in EdgeProbes}

\* What a failing git has printed: the same, without the overwritten digits.
FailedStdouts ==
  {Display(h) \o suf : h \in SampleHashes, suf \in Suffixes} \cup CutStdouts

\* The outcome of Command::new("git").args(["rev-parse", "HEAD"]).output():
\* whether the process could be launched, whether its exit status is
\* success, and the bytes of its standard output.
NotLaunched == [launch |-> FALSE, success |-> FALSE, stdout |-> <<>>]

Outcomes ==
  {NotLaunched}
  \cup {[launch |-> TRUE, success |-> TRUE, stdout |-> o] : o \in Stdouts}
  \cup {[launch |-> TRUE, success |-> FALSE, stdout |-> o] : o \in FailedStdouts}

(***************************************************************************)
(* State machine                                                           *)
(***************************************************************************)

Init ==
  /\ repo \in Outcomes
  /\ moved = FALSE
  /\ result = NoResult
  /\ fresh = FALSE
  /\ expansion = NoExpansion
  /\ calls = 0
  /\ spawned = 0

\* A plausible slip: the first successful result is remembered.
ResolveCached ==
  /\ calls < MaxCalls
  /\ calls' = calls + 1
  /\ IF result.kind = "Ok"
       THEN UNCHANGED <<spawned, result>>
       ELSE /\ spawned' = spawned + 1
            /\ result' = get_git_revision(repo)
  /\ fresh' = (result.kind = "Ok" /\ result'.kind = "Ok" /\ result' # result)
  /\ moved' = FALSE
  /\ UNCHANGED repo

\* One call of get_git_revision: the command is run once against the
\* repository as it is now and its outcome is parsed. moved records whether
\* HEAD has moved since the last call, and fresh whether this call and the
\* one before it both returned a hash, and different ones (both are history,
\* read by no operation).
Resolve ==
  /\ calls < MaxCalls
  /\ calls' = calls + 1
  /\ spawned' = spawned + 1
  /\ result' = get_git_revision(repo)
  /\ fresh' = (result.kind = "Ok" /\ result'.kind = "Ok" /\ result' # result)
  /\ moved' = FALSE
  /\ UNCHANGED repo

try_revision_u64 ==
  /\ Resolve
  /\ expansion' = try_revision_u64_expand(result')

revision_u64 ==
  /\ Resolve
  /\ expansion' = revision_u64_expand(result')

try_revision_string ==
  /\ Resolve
  /\ expansion' = try_revision_string_expand(result')

revision_string ==
  /\ Resolve
  /\ expansion' = revision_string_expand(result')

\* The repository HEAD moves to another commit between two builds. Moves
\* that no later call can observe, and a second move before the next call,
\* are left out: they add no behaviour of the program.
Commit ==
  /\ calls < MaxCalls
  /\ ~moved
  /\ \E h \in SampleHashes :
       repo' = [launch |-> TRUE, success |-> TRUE, stdout |-> GitOutput(h)]
  /\ repo' # repo
  /\ moved' = TRUE
  /\ UNCHANGED <<result, fresh, expansion, calls, spawned>>

Next ==
  \/ try_revision_u64
  \/ revision_u64
  \/ try_revision_string
  \/ revision_string
  \/ Commit

Spec == Init /\ [][Next]_vars

(***************************************************************************)
(* Reference notions the properties are stated with                        *)
(***************************************************************************)

\* The sixteen digits in value order.
RefLower == <<48, 49, 50, 51, 52, 53, 54, 55, 56, 57, 97, 98, 99, 100, 101, 102>>

IsHex(c) == (c >= 48 /\ c <= 57) \/ (c >= 65 /\ c <= 70) \/ (c >= 97 /\ c <= 102)

\* The value of a hex digit: '0'..'9' are 0..9, 'a'..'f' and 'A'..'F' 10..15.
HexVal(c) == IF c <= 57 THEN c - 48 ELSE IF c <= 70 THEN c - 55 ELSE c - 87

\* The value of the two hex digits at 0-based positions 2i and 2i+1 of s.
PairVal(s, i) == 16 * HexVal(s[2 * i + 1]) + HexVal(s[2 * i + 2])

First40(s) == SubSeq(s, 1, 40)

First40Hex(s) == Len(s) >= 40 /\ \A i \in 1..40 : IsHex(s[i])

IsAscii(s) == \A i \in 1..Len(s) : s[i] < 128

\* The number of characters of a UTF-8 text: its bytes that start one.
CharCount(s) == Cardinality({i \in 1..Len(s) : s[i] < 128 \/ s[i] > 191})

\* The big-endian number of bytes 0..7 of h, as limbs.
BigEndian8(h) == [k \in Limbs |-> h[8 - k]]

\* Numbers up to 2^64 written in base 1000000, least significant digit
\* first, for comparing a decimal literal with a byte sequence.
\* Base6Step(a, b) is a * 256 + b.
Base6Step(a, b) ==
  LET t1 == a[1] * 256 + b
      t2 == a[2] * 256 + (t1 \div 1000000)
      t3 == a[3] * 256 + (t2 \div 1000000)
      t4 == a[4] * 256 + (t3 \div 1000000)
  IN <<t1 % 1000000, t2 % 1000000, t3 % 1000000, t4 % 1000000>>

\* The big-endian number of bytes 0..7 of h, in base 1000000.
BigEndianValue(h) ==
  Base6Step(Base6Step(Base6Step(Base6Step(Base6Step(Base6Step(Base6Step(Base6Step(
    <<0, 0, 0, 0>>, h[1]), h[2]), h[3]), h[4]), h[5]), h[6]), h[7]), h[8])

\* The number a decimal literal writes, in base 1000000: its digits in
\* groups of six from the right.
DecDigitAt(digits, p) ==
  IF p <= Len(digits) THEN digits[Len(digits) - p + 1] - 48 ELSE 0

DecGroup(digits, c) ==
  DecDigitAt(digits, 6 * c - 5)
  + 10 * DecDigitAt(digits, 6 * c - 4)
  + 100 * DecDigitAt(digits, 6 * c - 3)
  + 1000 * DecDigitAt(digits, 6 * c - 2)
  + 10000 * DecDigitAt(digits, 6 * c - 1)
  + 100000 * DecDigitAt(digits, 6 * c)

DecValue(digits) ==
  <<DecGroup(digits, 1), DecGroup(digits, 2), DecGroup(digits, 3), DecGroup(digits, 4)>>

IsDecimal(digits) ==
  /\ Len(digits) >= 1
  /\ Len(digits) <= 20
  /\ \A i \in 1..Len(digits) : digits[i] >= 48 /\ digits[i] <= 57

\* The last call ran against the repository as it is now.
Called == calls > 0 /\ ~moved

Launched == repo.launch /\ repo.success

(***************************************************************************)
(* Properties                                                              *)
(***************************************************************************)

\* C1: with a success status and at least 40 bytes of output of which the
\* first 40 are hex digits in any case, the result is Ok(hash), byte i of
\* the hash is the base-16 value of characters 2i and 2i+1, and the result
\* is the one the first 40 characters alone give.
C1_DecodesFirst40 ==
  (Called /\ Launched /\ First40Hex(repo.stdout)) =>
    /\ result.kind = "Ok"
    /\ Len(result.hash) = 20
    /\ \A i \in 0..19 : result.hash[i + 1] = PairVal(repo.stdout, i)
    /\ result = get_git_revision([repo EXCEPT !.stdout = First40(repo.stdout)])

C1_Witness ==
  /\ Called /\ Launched /\ First40Hex(repo.stdout)
  /\ result.kind = "Ok"
  /\ Len(repo.stdout) > 40
  /\ \E i \in 1..40 : IsUpperHex(repo.stdout[i])
  /\ \E i \in 1..40 : IsLowerHex(repo.stdout[i])

\* C2: with a success status, an output of ASCII characters among whose
\* first 40 one is no hex digit is rejected with Error::Parse.
C2_NonHexRejected ==
  (/\ Called /\ Launched
   /\ Len(repo.stdout) >= 40
   /\ IsAscii(First40(repo.stdout))
   /\ \E i \in 1..40 : ~IsHex(repo.stdout[i]))
  => result = Err("Parse")

\* C3: every call returns: the result is Ok or one of the three errors,
\* whatever the command did and printed.
C3_AlwaysReturns ==
  calls > 0 =>
    \/ result.kind = "Ok"
    \/ result.kind = "Err" /\ result.err \in {"Command", "StatusCode", "Parse"}

\* C4: try_revision_u64 and try_revision_string never panic; they expand to
\* Some of the value when the resolution succeeded and to None when it
\* failed.
C4_TryNeverPanics ==
  /\ expansion.macro = "try_revision_u64" =>
       /\ expansion.tag # "panic"
       /\ result.kind = "Ok" =>
            /\ expansion.tag = "Some::<u64>(_)"
            /\ IsDecimal(expansion.lit)
            /\ DecValue(expansion.lit) = BigEndianValue(result.hash)
       /\ result.kind = "Err" => expansion.tag = "None::<u64>"
  /\ expansion.macro = "try_revision_string" =>
       /\ expansion.tag # "panic"
       /\ result.kind = "Ok" =>
            /\ expansion.tag = "Some::<&'static str>(\"_\")"
            /\ Len(expansion.lit) = 40
       /\ result.kind = "Err" => expansion.tag = "None::<&'static str>"

\* C5: revision_u64 and revision_string panic whenever the resolution did
\* not succeed, and otherwise expand to a literal of the value the optional
\* macro wraps in Some: the decimal digits of the big-endian number of bytes
\* 0..7, resp. the 40 hex digits.
C5_StrictMacros ==
  /\ expansion.macro = "revision_u64" =>
       /\ result.kind # "Ok" => expansion = Aborted("revision_u64")
       /\ result.kind = "Ok" =>
            /\ expansion.tag = "_u64"
            /\ IsDecimal(expansion.lit)
            /\ DecValue(expansion.lit) = BigEndianValue(result.hash)
            /\ expansion.lit = try_revision_u64_expand(result).lit
  /\ expansion.macro = "revision_string" =>
       /\ result.kind # "Ok" => expansion = Aborted("revision_string")
       /\ result.kind = "Ok" =>
            /\ expansion.tag = "\"_\""
            /\ Len(expansion.lit) = 40
            /\ \A i \in 0..19 : PairVal(expansion.lit, i) = result.hash[i + 1]
            /\ expansion.lit = try_revision_string_expand(result).lit

C5_Witness ==
  /\ expansion.macro = "revision_u64"
  /\ result.kind = "Ok"
  /\ expansion.tag = "_u64"
  /\ Len(expansion.lit) = 20

\* C6: the error kind is that of the earliest failing stage: Command when
\* the command could not be launched, StatusCode when it exited without
\* success whatever it printed, and Parse only after a success status.
C6_ErrorOrder ==
  Called =>
    /\ ~repo.launch => result = Err("Command")
    /\ (repo.launch /\ ~repo.success) => result = Err("StatusCode")
    /\ result = Err("Parse") => Launched

C6_Witness ==
  /\ Called
  /\ repo.launch /\ ~repo.success
  /\ First40Hex(repo.stdout)
  /\ result = Err("StatusCode")

\* C7: with a success status, every output of fewer than 40 characters
\* yields Error::Parse, and 40 hex digits without a newline are accepted
\* with the hash they give when a newline follows.
C7_LengthThreshold ==
  (Called /\ Launched) =>
    /\ (from_utf8_ok(repo.stdout) /\ CharCount(repo.stdout) < 40)
         => result = Err("Parse")
    /\ (Len(repo.stdout) = 40 /\ First40Hex(repo.stdout)) =>
         /\ result.kind = "Ok"
         /\ result = get_git_revision([repo EXCEPT !.stdout = repo.stdout \o <<10>>])

C9_BigEndian ==
  result.kind = "Ok" =>
    LET h == result.hash
        v == most_significant_u64(h)
        s == Display(h)
    IN /\ DOMAIN v = Limbs
       /\ \A k \in Limbs : v[k] \in Byte
       /\ v = BigEndian8(h)
       /\ \A k \in Limbs : v[k] = PairVal(s, 7 - k)
       /\ \A g \in SampleHashes :
            (most_significant_u64(g) = v) <=> (\A i \in 1..8 : g[i] = h[i])

C9_Witness ==
  /\ result.kind = "Ok"
  /\ \E g \in SampleHashes :
       /\ g # result.hash
       /\ \A i \in 1..8 : g[i] = result.hash[i]

\* C10: every call runs the command once; a successful call repeated on an
\* unchanged repository returns the same hash; and a call made when HEAD is
\* at commit h returns h, whatever earlier calls returned.
C10_NoCaching ==
  [][calls' = calls + 1 =>
       /\ spawned' = spawned + 1
       /\ spawned' = calls'
       /\ (calls > 0 /\ ~moved /\ result.kind = "Ok") => result' = result
       /\ \A h \in SampleHashes :
            repo = [launch |-> TRUE, success |-> TRUE, stdout |-> GitOutput(h)]
              => result' = Ok(h)]_vars

C10_Witness ==
  /\ calls = 2 /\ spawned = 2 /\ ~moved
  /\ fresh /\ result.kind = "Ok"
  /\ \E h \in SampleHashes : result.hash = h /\ repo.stdout = GitOutput(h)

====
